---- MODULE Spec2Model ----
(***************************************************************************)
(* FindTheSpy backend (src/app/routers/game.py, src/app/models.py).        *)
(*                                                                         *)
(* The state is the four tables of the store, restricted to the rows of    *)
(* one room code (every query of game.py filters on room_code = $1, so     *)
(* rows of other codes never influence a command on this one), and the     *)
(* request handlers in flight.  A handler is a sequence of awaited         *)
(* statements; each statement that runs on the pool is one atomic step,    *)
(* and a handler's explicit transaction keeps its writes private until     *)
(* its commit step (PostgreSQL READ COMMITTED, the default of asyncpg).    *)
(* active_connections holds the websockets registered for the code; a     *)
(* handler's broadcast visits them one awaited send at a time.             *)
(*                                                                         *)
(* The tables are modelled with the columns and the unique indexes the     *)
(* statements of game.py name (rooms.host_name, rooms.current_phase, the   *)
(* ON CONFLICT target of votes): no statement of game.py can execute       *)
(* against a table without them.                                           *)
(***************************************************************************)
EXTENDS Integers, FiniteSets, Sequences, TLC

VARIABLES rooms, players, votes, round_results, procs, issued,
          active_connections,   \* game.py 8: the websockets registered for the code
          before                \* the store as it was when the command in flight was issued

db == <<rooms, players, votes, round_results>>
env == <<active_connections, before>>
vars == <<rooms, players, votes, round_results, procs, issued, active_connections, before>>

(* ---------------------------------------------------------------- bounds *)
MaxCommands == 4   \* commands issued in a run of overlapping handlers
MaxSeqCommands == 4   \* commands issued in a run of one command at a time
MaxWsEvents == 4   \* commands and websocket events in a run with subscribers
MaxFailCommands == 3   \* commands issued in a run with failing statements

Procs == {1, 2}    \* request handlers that can be in flight together
Names == {"ann", "bob", "cara"}
Sockets == {"w1", "w2"}   \* websocket connections a run can open
Creators == {"ann"}
MafiaCounts == {1, 2}   \* the mafia_count a create-room request carries
NULL == "NULL"
MaxCodeAttempts == 10
FallbackWords == <<"apple", "banana">>
ApiWords == <<"tiger", "lion">>
WordPairs == {FallbackWords, ApiWords}

(* ------------------------------------------------------------- the store *)
\* models.py: DEFAULT 'waiting'; host_name and current_phase as game.py uses them
NewRoom(mafia_count, name) ==
    [mafia_count |-> mafia_count, host_name |-> name,
     status |-> "waiting", current_phase |-> NULL]

\* models.py: eliminated DEFAULT FALSE, score DEFAULT 0, round DEFAULT 1
NewPlayer ==
    [is_mafia |-> NULL, eliminated |-> FALSE, word |-> NULL, score |-> 0, round |-> 1]

AddPlayer(P, n) == [m \in DOMAIN P \cup {n} |-> IF m = n THEN NewPlayer ELSE P[m]]

NoPlayers == [n \in {} |-> NewPlayer]

Max(S) == CHOOSE x \in S : \A y \in S : y <= x

\* SELECT MAX(round) FROM round_results WHERE room_code = $1   (None -> 0)
MaxRound ==
    IF round_results = <<>> THEN 0
    ELSE Max({round_results[i].round : i \in 1..Len(round_results)})

\* ... ) or 1
CurrentRound == IF MaxRound = 0 THEN 1 ELSE MaxRound

HostName == IF rooms = {} THEN NULL ELSE (CHOOSE r \in rooms : TRUE).host_name

SetRoom(f(_)) == {f(r) : r \in rooms}

\* the four tables as init_db creates them
EmptyStore == <<{}, NoPlayers, {}, <<>>>>

(* ------------------------------------------------------ request handlers *)
NoProc ==
    [pc |-> "idle", op |-> "", name |-> "", mafia_count |-> 0,
     attempts |-> 0, current_round |-> 0, plist |-> {}, stale |-> 0, mafia_ids |-> {},
     eliminated_name |-> "", is_mafia |-> NULL, correct_voters |-> {},
     pvote |-> {}, upd |-> FALSE, res |-> {}, resp |-> 0,
     next_pc |-> "", it_used |-> 0, sent |-> {}, cur |-> "", got |-> {}]

\* The request body is read where the handler first uses it: a field no
\* statement has used yet is still any value the client may have sent.

Idle(p) == procs[p].pc = "idle"
At(p, l) == procs[p].pc = l

Begin(op, name, l) ==
    [NoProc EXCEPT !.pc = l, !.op = op, !.name = name]

\* the handler returns (or raises HTTPException) with this status code
Done(op, name, code) ==
    [NoProc EXCEPT !.pc = "done", !.op = op, !.name = name, !.resp = code]

Finished(p, code) == Done(procs[p].op, procs[p].name, code)

Goto(p, l) == [procs[p] EXCEPT !.pc = l]

(* ---- broadcast (game.py 43-48): for connection in active_connections.get(
        room_code, {}): try: await connection.send_text(message) except: continue.
        The handler goes on as rec when no websocket is registered; otherwise
        the dict iterator is created over it_used entries and the handler
        awaits the first send_text. *)
Publish(p, rec) ==
    IF active_connections = {}
    THEN procs' = [procs EXCEPT ![p] = rec]
    ELSE \E c \in active_connections :
            procs' = [procs EXCEPT ![p] =
                        [rec EXCEPT !.pc = "bcast", !.next_pc = rec.pc,
                                    !.it_used = Cardinality(active_connections),
                                    !.sent = {c}, !.cur = c]]

\* the row locks an open transaction of another handler holds until it commits
RoomLocked(p) == \E q \in Procs \ {p} : \E r \in procs[q].res : r.room
PlayersLocked(p, S) == \E q \in Procs \ {p} : \E r \in procs[q].res : r.winners \cap S # {}
VoteKeyLocked(p, voter, round) ==
    \E q \in Procs \ {p} : \E v \in procs[q].pvote : v.voter_name = voter /\ v.round = round
VoteRowsLocked(p) == \E q \in Procs \ {p} : procs[q].pvote # {} /\ procs[q].upd

(* ---- create_room (game.py 66-86) with generate_unique_room_code (35-41) *)
\* one pass of the loop: the drawn code is this room's code or another one
CodePass(p, attempts) ==
    /\ \E tracked \in BOOLEAN :
          procs' = [procs EXCEPT ![p] =
             IF ~tracked THEN Done("create_room", "", 200)   \* a room under another code
             ELSE IF rooms = {} THEN Begin("create_room", "", "cr_insert")
             ELSE IF attempts + 1 >= MaxCodeAttempts THEN Done("create_room", "", 500)
             ELSE [Begin("create_room", "", "cr_gen") EXCEPT !.attempts = attempts + 1]]
    /\ UNCHANGED db

CreateRoom(p) == Idle(p) /\ CodePass(p, 0)

GenerateCode(p) == At(p, "cr_gen") /\ CodePass(p, procs[p].attempts)

\* the transaction of lines 72-81; a unique violation raises, and the
\* except clause of line 85 turns it into a 500
InsertRoom(p) ==
    /\ At(p, "cr_insert")
    /\ \E mafia_count \in MafiaCounts, name \in Creators :
         IF rooms # {} \/ name \in DOMAIN players
         THEN /\ procs' = [procs EXCEPT ![p] = Done("create_room", name, 500)]
              /\ UNCHANGED <<rooms, players>>
         ELSE /\ rooms' = {NewRoom(mafia_count, name)}
              /\ players' = AddPlayer(players, name)
              /\ Publish(p, Done("create_room", name, 200))
    /\ UNCHANGED <<votes, round_results>>

(* ---- join_room (game.py 88-101) *)
\* line 90: 1 <= len(name) <= 30 (every name of Names is that short)
NameOk(n) == n # ""

JoinRoom(p) ==
    /\ Idle(p)
    /\ \E ok \in BOOLEAN :
          procs' = [procs EXCEPT ![p] =
                      IF ~ok THEN Done("join_room", "", 400)
                      ELSE IF rooms = {} THEN Done("join_room", "", 404)
                      ELSE Begin("join_room", "", "jr_insert")]
    /\ UNCHANGED db

JoinInsert(p, N) ==
    /\ At(p, "jr_insert")
    /\ \E name \in {n \in N : NameOk(n)} :
         IF name \in DOMAIN players
         THEN /\ procs' = [procs EXCEPT ![p] = Done("join_room", name, 400)]
              /\ UNCHANGED players
         ELSE /\ players' = AddPlayer(players, name)
              /\ procs' = [procs EXCEPT ![p] = Done("join_room", name, 200)]
    /\ UNCHANGED <<rooms, votes, round_results>>

\* a host check that lets every caller through (fault injected to test C10)
AnyCaller(name) == TRUE

(* ---- the host check every host-gated handler starts with:
        fetchval(host_name) == name; no room gives None, which equals no name *)
IsHost(name) == HostName = name

\* random.sample(ids, k) over a fetched id list of which `stale` ids have been
\* deleted since: the live spies it can pick
Samples(live, stale, k) ==
    {S \in SUBSET live : \E dead \in 0..stale : Cardinality(S) + dead = k}

(* ---- assign_words_and_roles (game.py 11-33): one transaction, one UPDATE
        ... WHERE id = $4 per fetched player *)
AssignRoles(P, plist, mafia_ids, words, round) ==
    [n \in DOMAIN P |->
       IF n \in plist
       THEN [P[n] EXCEPT !.is_mafia = IF n \in mafia_ids THEN "TRUE" ELSE "FALSE",
                         !.word = IF n \in mafia_ids THEN words[2] ELSE words[1],
                         !.round = round,
                         !.eliminated = FALSE]
       ELSE P[n]]

AssignWordsAndRoles(p) ==
    /\ At(p, "assign")
    /\ ~PlayersLocked(p, procs[p].plist)
    /\ \E words \in WordPairs :
          players' = AssignRoles(players, procs[p].plist, procs[p].mafia_ids,
                                 words, procs[p].current_round)
    /\ procs' = [procs EXCEPT ![p] = Goto(p, "set_ongoing")]
    /\ UNCHANGED <<rooms, votes, round_results>>

\* UPDATE rooms SET status = 'ongoing', current_phase = 'discussion'
\* (start_round 136-140, next_round 454-458)
Ongoing(r) == [r EXCEPT !.status = "ongoing", !.current_phase = "discussion"]

SetOngoing(p) ==
    /\ At(p, "set_ongoing")
    /\ ~RoomLocked(p)
    /\ rooms' = SetRoom(Ongoing)
    /\ IF procs[p].op = "start_round"
       THEN Publish(p, Finished(p, 200))
       ELSE procs' = [procs EXCEPT ![p] = Goto(p, "nr_delvotes")]
    /\ UNCHANGED <<players, votes, round_results>>

(* ---- start_round (game.py 103-143) *)
\* a host-gated handler is called: lines 108-114, 150-156, 182-188, 416-423
HostGate(p, N, op, l) ==
    /\ Idle(p)
    /\ \E name \in N :
          procs' = [procs EXCEPT ![p] =
                      IF IsHost(name) THEN Begin(op, name, l) ELSE Done(op, name, 403)]
    /\ UNCHANGED db

StartRound(p, N) == HostGate(p, N, "start_round", "sr_room")

StartRoundRoom(p) ==
    /\ At(p, "sr_room")
    /\ procs' = [procs EXCEPT ![p] =
                   IF rooms = {} THEN Finished(p, 404)
                   ELSE [procs[p] EXCEPT !.pc = "sr_players",
                           !.mafia_count = (CHOOSE r \in rooms : TRUE).mafia_count]]
    /\ UNCHANGED db

StartRoundPlayers(p) ==
    /\ At(p, "sr_players")
    /\ IF Cardinality(DOMAIN players) < procs[p].mafia_count
       THEN procs' = [procs EXCEPT ![p] = Finished(p, 400)]
       ELSE \E S \in Samples(DOMAIN players, 0, procs[p].mafia_count) :
               procs' = [procs EXCEPT ![p] =
                           [procs[p] EXCEPT !.pc = "assign", !.plist = DOMAIN players,
                                            !.mafia_ids = S,
                                            !.current_round = 1]]   \* First round is 1
    /\ UNCHANGED db

(* ---- start_voting (game.py 145-175) *)
StartVoting(p, N) == HostGate(p, N, "start_voting", "sv_phase")

StartVotingPhase(p) ==
    /\ At(p, "sv_phase")
    /\ procs' = [procs EXCEPT ![p] =
                   IF rooms = {} THEN Finished(p, 404)
                   ELSE IF (CHOOSE r \in rooms : TRUE).current_phase # "discussion"
                        THEN Finished(p, 400)
                        ELSE Goto(p, "sv_update")]
    /\ UNCHANGED db

\* an UPDATE that matches no row (fault injected to test C12)
NoPhaseChange(r) == r

\* UPDATE rooms SET current_phase = 'voting'
Voting(r) == [r EXCEPT !.current_phase = "voting"]

StartVotingUpdate(p) ==
    /\ At(p, "sv_update")
    /\ ~RoomLocked(p)
    /\ rooms' = SetRoom(Voting)
    /\ Publish(p, Finished(p, 200))
    /\ UNCHANGED <<players, votes, round_results>>

(* ---- end_game (game.py 177-196): four DELETEs, each its own statement *)
EndGame(p, N) == HostGate(p, N, "end_game", "eg_votes")

EndGameVotes(p) ==
    /\ At(p, "eg_votes")
    /\ ~VoteRowsLocked(p)
    /\ votes' = {}
    /\ procs' = [procs EXCEPT ![p] = Goto(p, "eg_results")]
    /\ UNCHANGED <<rooms, players, round_results>>

EndGameResults(p) ==
    /\ At(p, "eg_results")
    /\ round_results' = <<>>
    /\ procs' = [procs EXCEPT ![p] = Goto(p, "eg_players")]
    /\ UNCHANGED <<rooms, players, votes>>

\* The deleted ids are never issued again: an id list another handler fetched
\* before keeps them as ids that match no row.
Forget(q) ==
    [procs[q] EXCEPT !.plist = {}, !.mafia_ids = {},
                     !.stale = IF procs[q].pc = "nr_mafia"
                               THEN @ + Cardinality(procs[q].plist) ELSE @]

EndGamePlayers(p) ==
    /\ At(p, "eg_players")
    /\ ~PlayersLocked(p, DOMAIN players)
    /\ players' = NoPlayers
    /\ procs' = [q \in Procs |-> IF q = p THEN Goto(p, "eg_rooms") ELSE Forget(q)]
    /\ UNCHANGED <<rooms, votes, round_results>>

EndGameRooms(p) ==
    /\ At(p, "eg_rooms")
    /\ ~RoomLocked(p)
    /\ rooms' = {}
    /\ Publish(p, Finished(p, 200))
    /\ UNCHANGED <<players, votes, round_results>>

(* ---- round resolution: the queries of process_round_results and end_round *)
VotesOf(V, round) == {v \in V : v.round = round}

Count(V, n) == Cardinality({v \in V : v.voted_name = n})

\* SELECT voted_name, COUNT(*) ... GROUP BY voted_name ORDER BY votes DESC LIMIT 1:
\* the names the first row can carry (the order among equal counts is the store's)
Plurality(V) ==
    {n \in {v.voted_name : v \in V} : \A m \in {v.voted_name : v \in V} : Count(V, m) <= Count(V, n)}

\* process_round_results 279-293: is_mafia = FALSE AND name IN (voters of a vote
\* whose voted_name joins a player of the room with is_mafia = TRUE)
SpyCaughtWinners(P, V) ==
    {n \in DOMAIN P :
        /\ P[n].is_mafia = "FALSE"
        /\ \E v \in V : /\ v.voter_name = n
                        /\ v.voted_name \in DOMAIN P
                        /\ P[v.voted_name].is_mafia = "TRUE"}

\* a scoring query without the NOT IN clause (fault injected to test C4)
AllSpies(P, V) == {n \in DOMAIN P : P[n].is_mafia = "TRUE"}

\* process_round_results 295-303 and end_round 367-373: is_mafia = TRUE AND
\* name NOT IN (SELECT voted_name FROM votes of the round)
SpyEscapedWinners(P, V) ==
    {n \in DOMAIN P : P[n].is_mafia = "TRUE" /\ n \notin {v.voted_name : v \in V}}

\* end_round 361-365: name = ANY(correct_voters) AND is_mafia = FALSE
EndRoundSpyCaughtWinners(P, correct_voters) ==
    {n \in DOMAIN P : n \in correct_voters /\ P[n].is_mafia = "FALSE"}

\* SET score = score + 1 on the selected rows
AddPoint(P, W) ==
    [n \in DOMAIN P |-> IF n \in W THEN [P[n] EXCEPT !.score = @ + 1] ELSE P[n]]

ResultRow(round, name, was_mafia) ==
    [round |-> round, eliminated_player |-> name, was_mafia |-> was_mafia]

Ended(r) == [r EXCEPT !.status = "ended"]

(* ---- vote (game.py 224-257) with process_round_results (259-312) *)
Vote(p) ==
    /\ Idle(p)
    /\ procs' = [procs EXCEPT ![p] =
                   [Begin("vote", "", "v_upsert") EXCEPT !.current_round = CurrentRound]]
    /\ UNCHANGED db

SameKey(v, w) == v.voter_name = w.voter_name /\ v.round = w.round

\* an INSERT without the ON CONFLICT clause (fault injected to test C5)
PlainInsert(V, row) == V \cup {row}

\* INSERT ... ON CONFLICT (room_code, voter_name, round) DO UPDATE SET voted_name
Upsert(V, row) == {v \in V : ~SameKey(v, row)} \cup {row}

VoteUpsert(p, N) ==
    /\ At(p, "v_upsert")
    /\ \E voter_name \in N, voted_name \in N :
         /\ ~VoteKeyLocked(p, voter_name, procs[p].current_round)
         /\ LET row == [round |-> procs[p].current_round, voter_name |-> voter_name,
                        voted_name |-> voted_name]
            IN procs' = [procs EXCEPT ![p] =
                           [procs[p] EXCEPT !.pc = "v_count", !.name = voter_name,
                                            !.pvote = {row},
                                            !.upd = \E v \in votes : SameKey(v, row)]]
    /\ UNCHANGED db

\* what the transaction of p reads: the committed rows and its own write
Visible(p) ==
    IF procs[p].pvote = {} THEN votes
    ELSE Upsert(votes, CHOOSE v \in procs[p].pvote : TRUE)

\* if current_votes >= active_players
Quorum(current_votes, active_players) == current_votes >= active_players

\* lines 243-255: the two counts, and process_round_results when they meet.
\* No player under the chosen name makes eliminated None, eliminated["is_mafia"]
\* raise and the transaction roll back.
VoteCount(p) ==
    /\ At(p, "v_count")
    /\ LET V == VotesOf(Visible(p), procs[p].current_round)
           active_players == Cardinality(DOMAIN players)
           current_votes == Cardinality({v.voter_name : v \in V})
       IN IF ~Quorum(current_votes, active_players)
          THEN procs' = [procs EXCEPT ![p] = Goto(p, "v_commit")]
          ELSE \E e \in Plurality(V) :
                 IF e \notin DOMAIN players
                 THEN procs' = [procs EXCEPT ![p] = Finished(p, 500)]
                 ELSE LET W == IF players[e].is_mafia = "TRUE"
                               THEN SpyCaughtWinners(players, V)
                               ELSE SpyEscapedWinners(players, V)
                      IN /\ ~PlayersLocked(p, W)
                         /\ ~RoomLocked(p)
                         /\ Publish(p,
                               [procs[p] EXCEPT !.pc = "v_commit",
                                  !.res = {[row |-> ResultRow(procs[p].current_round, e,
                                                              players[e].is_mafia),
                                            winners |-> W, room |-> rooms # {}]}])
    /\ UNCHANGED db

VoteCommit(p) ==
    /\ At(p, "v_commit")
    /\ votes' = Upsert(votes, CHOOSE v \in procs[p].pvote : TRUE)
    /\ IF procs[p].res = {}
       THEN UNCHANGED <<rooms, players, round_results>>
       ELSE LET r == CHOOSE r \in procs[p].res : TRUE
            IN /\ players' = AddPoint(players, r.winners)
               /\ round_results' = Append(round_results, r.row)
               /\ rooms' = IF r.room THEN SetRoom(Ended) ELSE rooms
    /\ procs' = [procs EXCEPT ![p] = Finished(p, 200)]

(* ---- end_round (game.py 330-382): every statement runs on the pool *)
EndRound(p) ==
    /\ Idle(p)
    /\ procs' = [procs EXCEPT ![p] =
                   [Begin("end_round", "", "er_votes") EXCEPT !.current_round = CurrentRound]]
    /\ UNCHANGED db

EndRoundVotes(p) ==
    /\ At(p, "er_votes")
    /\ LET V == VotesOf(votes, procs[p].current_round)
       IN IF V = {}
          THEN procs' = [procs EXCEPT ![p] = Finished(p, 400)]
          ELSE \E e \in Plurality(V) :
                 procs' = [procs EXCEPT ![p] =
                             [procs[p] EXCEPT !.pc = "er_eliminated", !.eliminated_name = e]]
    /\ UNCHANGED db

EndRoundEliminated(p) ==
    /\ At(p, "er_eliminated")
    /\ procs' = [procs EXCEPT ![p] =
                   IF procs[p].eliminated_name \notin DOMAIN players
                   THEN Finished(p, 404)
                   ELSE [procs[p] EXCEPT !.pc = "er_voters",
                           !.is_mafia = players[procs[p].eliminated_name].is_mafia]]
    /\ UNCHANGED db

EndRoundVoters(p) ==
    /\ At(p, "er_voters")
    /\ procs' = [procs EXCEPT ![p] =
                   [procs[p] EXCEPT !.pc = "er_score",
                      !.correct_voters =
                         {v.voter_name : v \in
                            {w \in VotesOf(votes, procs[p].current_round) :
                                w.voted_name = procs[p].eliminated_name}}]]
    /\ UNCHANGED db

EndRoundScore(p) ==
    /\ At(p, "er_score")
    /\ LET W == IF procs[p].is_mafia = "TRUE"
                THEN EndRoundSpyCaughtWinners(players, procs[p].correct_voters)
                ELSE SpyEscapedWinners(players, VotesOf(votes, procs[p].current_round))
       IN /\ ~PlayersLocked(p, W)
          /\ players' = AddPoint(players, W)
    /\ procs' = [procs EXCEPT ![p] = Goto(p, "er_insert")]
    /\ UNCHANGED <<rooms, votes, round_results>>

EndRoundInsert(p) ==
    /\ At(p, "er_insert")
    /\ round_results' = Append(round_results,
                               ResultRow(procs[p].current_round, procs[p].eliminated_name,
                                         procs[p].is_mafia))
    /\ procs' = [procs EXCEPT ![p] = Goto(p, "er_status")]
    /\ UNCHANGED <<rooms, players, votes>>

EndRoundStatus(p) ==
    /\ At(p, "er_status")
    /\ ~RoomLocked(p)
    /\ rooms' = SetRoom(Ended)
    /\ Publish(p, Finished(p, 200))
    /\ UNCHANGED <<players, votes, round_results>>

(* ---- next_round (game.py 411-470) *)
NextRound(p, N) == HostGate(p, N, "next_round", "nr_round")

\* a round number that is not incremented (fault injected to test C8)
SameRoundNum == MaxRound

\* current_round = MAX(round) or 0; next_round_num = current_round + 1
NextRoundNum == MaxRound + 1

NextRoundRound(p) ==
    /\ At(p, "nr_round")
    /\ procs' = [procs EXCEPT ![p] =
                   [procs[p] EXCEPT !.pc = "nr_players", !.current_round = NextRoundNum]]
    /\ UNCHANGED db

NextRoundPlayers(p) ==
    /\ At(p, "nr_players")
    /\ procs' = [procs EXCEPT ![p] =
                   [procs[p] EXCEPT !.pc = "nr_mafia", !.plist = DOMAIN players]]
    /\ UNCHANGED db

\* fetchval(mafia_count) of a room that is gone is None, and
\* len(players) < None raises TypeError
NextRoundMafia(p) ==
    /\ At(p, "nr_mafia")
    /\ IF rooms = {}
       THEN procs' = [procs EXCEPT ![p] = Finished(p, 500)]
       ELSE LET mafia_count == (CHOOSE r \in rooms : TRUE).mafia_count
            IN IF Cardinality(procs[p].plist) + procs[p].stale < mafia_count
               THEN procs' = [procs EXCEPT ![p] = Finished(p, 400)]
               ELSE \E S \in Samples(procs[p].plist, procs[p].stale, mafia_count) :
                       procs' = [procs EXCEPT ![p] =
                                   [procs[p] EXCEPT !.pc = "assign", !.mafia_ids = S,
                                                    !.stale = 0,
                                                    !.mafia_count = mafia_count]]
    /\ UNCHANGED db

\* DELETE FROM votes WHERE room_code = $1
NextRoundDeleteVotes(p) ==
    /\ At(p, "nr_delvotes")
    /\ ~VoteRowsLocked(p)
    /\ votes' = {}
    /\ Publish(p, Finished(p, 200))
    /\ UNCHANGED <<rooms, players, round_results>>

(* ---- broadcast, from its first await on (game.py 44-48) *)
\* send_text returns or raises (the except clause swallows it), and the for
\* statement asks the dict iterator for the next key: RuntimeError when the
\* dict changed size since the iterator was created, else a key not yet
\* visited, else the end of the loop.  The RuntimeError leaves broadcast and
\* the handler (inside vote's transaction, which rolls back).  got keeps the
\* sockets whose send_text returned: the event is on its way to the client.
Broadcast(p) ==
    /\ At(p, "bcast")
    /\ \E ok \in BOOLEAN :
         LET got == IF ok THEN procs[p].got \cup {procs[p].cur} ELSE procs[p].got
         IN IF Cardinality(active_connections) # procs[p].it_used
            THEN procs' = [procs EXCEPT ![p] = Finished(p, 500)]
            ELSE IF active_connections \ procs[p].sent = {}
            THEN procs' = [procs EXCEPT ![p] =
                             [procs[p] EXCEPT !.pc = procs[p].next_pc, !.next_pc = "",
                                              !.it_used = 0, !.sent = {}, !.cur = "",
                                              !.got = got]]
            ELSE \E c \in active_connections \ procs[p].sent :
                    procs' = [procs EXCEPT ![p] =
                                [procs[p] EXCEPT !.sent = @ \cup {c}, !.cur = c,
                                                 !.got = got]]
    /\ UNCHANGED db

(* ---- websocket_endpoint (game.py 51-63) *)
\* line 56: the first text frame has arrived and the socket is registered
WsRegister(w) ==
    /\ w \notin active_connections
    /\ active_connections' = active_connections \cup {w}
    /\ UNCHANGED <<db, procs>>

\* lines 59-63: the client is gone and the finally clause removes the socket;
\* a connection made later is another socket object
WsDisconnect(w) ==
    /\ w \in active_connections
    /\ active_connections' = active_connections \ {w}
    /\ procs' = [q \in Procs |-> [procs[q] EXCEPT !.sent = @ \ {w}]]
    /\ UNCHANGED db

(* ---- a statement on the store raises (connection lost, statement timeout) *)
\* The exception leaves the handler: an open transaction rolls back, what
\* earlier statements committed stays; join_room's except clause answers 400.
StorageFailure(p) ==
    /\ procs[p].pc \notin {"idle", "done", "bcast"}
    /\ procs' = [procs EXCEPT ![p] =
                   Finished(p, IF procs[p].op = "join_room" THEN 400 ELSE 500)]
    /\ UNCHANGED db

(* ---- get_room_status (game.py 482-493) *)
GetRoomStatus(p) ==
    /\ Idle(p)
    /\ procs' = [procs EXCEPT ![p] =
                   Done("room_status", "", IF rooms = {} THEN 404 ELSE 200)]
    /\ UNCHANGED db

\* the response is delivered; the handler slot is free again
Return(p) ==
    /\ At(p, "done")
    /\ procs' = [procs EXCEPT ![p] = NoProc]
    /\ UNCHANGED db

(* ------------------------------------------------------ specifications *)
\* the tables init_db leaves on an empty store, and no request in flight
Init ==
    /\ rooms = {}
    /\ players = NoPlayers
    /\ votes = {}
    /\ round_results = <<>>
    /\ procs = [p \in Procs |-> NoProc]
    /\ issued = 0
    /\ active_connections = {}
    /\ before = EmptyStore

\* a request arrives and its handler runs up to its first awaited statement
Call(p, N) ==
    \/ CreateRoom(p)
    \/ JoinRoom(p)
    \/ StartRound(p, N)
    \/ StartVoting(p, N)
    \/ Vote(p)
    \/ EndRound(p)
    \/ NextRound(p, N)
    \/ EndGame(p, N)
    \/ GetRoomStatus(p)

\* a handler in flight runs its next statement
Step(p, N) ==
    \/ GenerateCode(p)
    \/ InsertRoom(p)
    \/ JoinInsert(p, N)
    \/ StartRoundRoom(p)
    \/ StartRoundPlayers(p)
    \/ AssignWordsAndRoles(p)
    \/ SetOngoing(p)
    \/ StartVotingPhase(p)
    \/ StartVotingUpdate(p)
    \/ VoteUpsert(p, N)
    \/ VoteCount(p)
    \/ VoteCommit(p)
    \/ EndRoundVotes(p)
    \/ EndRoundEliminated(p)
    \/ EndRoundVoters(p)
    \/ EndRoundScore(p)
    \/ EndRoundInsert(p)
    \/ EndRoundStatus(p)
    \/ NextRoundRound(p)
    \/ NextRoundPlayers(p)
    \/ NextRoundMafia(p)
    \/ NextRoundDeleteVotes(p)
    \/ EndGameVotes(p)
    \/ EndGameResults(p)
    \/ EndGamePlayers(p)
    \/ EndGameRooms(p)
    \/ Return(p)

AllIdle == \A q \in Procs : Idle(q)

\* One command at a time: a command is issued when no other is in flight,
\* MaxSeqCommands commands to a run.
NextSeq ==
    \/ AllIdle /\ issued < MaxSeqCommands /\ Call(1, Names) /\ issued' = issued + 1
          /\ UNCHANGED env
    \/ Step(1, Names) /\ UNCHANGED <<issued, env>>

\* The runs of SpecSeq start in the empty store or in a lobby: the host has
\* created the room and some players have joined (create_room, then join_room
\* for each name: TLC reaches every one of them from Init under Spec).
Lobby(mafia_count, host, joined) ==
    /\ rooms = {NewRoom(mafia_count, host)}
    /\ players = [n \in {host} \cup joined |-> NewPlayer]
    /\ votes = {}
    /\ round_results = <<>>

InitSeq ==
    /\ \/ rooms = {} /\ players = NoPlayers /\ votes = {} /\ round_results = <<>>
       \/ \E mafia_count \in MafiaCounts, host \in Creators, joined \in SUBSET Names :
             Lobby(mafia_count, host, joined)
    /\ procs = [p \in Procs |-> NoProc]
    /\ issued = 0
    /\ active_connections = {}
    /\ before = EmptyStore

SpecSeq == InitSeq /\ [][NextSeq]_vars

\* Commands overlap: handlers interleave statement by statement, MaxCommands
\* commands to a run.
Next ==
    \E p \in Procs :
       \/ issued < MaxCommands /\ Call(p, Names) /\ issued' = issued + 1
             /\ UNCHANGED env
       \/ Step(p, Names) /\ UNCHANGED <<issued, env>>

Spec == Init /\ [][Next]_vars

\* One command at a time while websockets register and disconnect at any
\* moment, MaxWsEvents commands and websocket events to a run.  The clients
\* open their websockets on the code of a room they created or joined: the
\* runs start in a lobby.
InitWs ==
    /\ \E mafia_count \in MafiaCounts, host \in Creators, joined \in SUBSET Names :
          Lobby(mafia_count, host, joined)
    /\ procs = [p \in Procs |-> NoProc]
    /\ issued = 0
    /\ active_connections = {}
    /\ before = EmptyStore

NextWs ==
    \/ AllIdle /\ issued < MaxWsEvents /\ Call(1, Names) /\ issued' = issued + 1
          /\ UNCHANGED env
    \/ (Step(1, Names) \/ Broadcast(1)) /\ UNCHANGED <<issued, env>>
    \/ \E w \in Sockets :
          /\ issued < MaxWsEvents
          /\ WsRegister(w) \/ WsDisconnect(w)
          /\ issued' = issued + 1
          /\ UNCHANGED before

SpecWs == InitWs /\ [][NextWs]_vars

\* One command at a time on a store whose statements can fail,
\* MaxFailCommands commands to a run; before keeps the store the command met.
NextFail ==
    \/ AllIdle /\ issued < MaxFailCommands /\ Call(1, Names) /\ issued' = issued + 1
          /\ before' = db
          /\ UNCHANGED active_connections
    \/ (Step(1, Names) \/ StorageFailure(1)) /\ UNCHANGED <<issued, env>>

SpecFail == InitSeq /\ [][NextFail]_vars

(* ------------------------------------------------------------- claims *)
Rounds == {round_results[i].round : i \in 1..Len(round_results)}
RowsOf(round) == {i \in 1..Len(round_results) : round_results[i].round = round}

\* p's handler returns in this step
Completes(p, op, code) ==
    /\ procs[p].pc # "done"
    /\ procs'[p].pc = "done"
    /\ procs'[p].op = op
    /\ procs'[p].resp = code

\* C1: whatever votes and end-rounds have run, round_results holds at most one
\* row for each round of the room (a round is resolved at most once).
C1_ResolvedOnce == \A round \in Rounds : Cardinality(RowsOf(round)) <= 1

\* C2: a room's status is ongoing exactly when its current_phase is discussion
\* or voting.
C2_StatusMatchesPhase ==
    \A r \in rooms : r.status = "ongoing" <=> r.current_phase \in {"discussion", "voting"}

Spies(P) == {n \in DOMAIN P : P[n].is_mafia = "TRUE"}
NonSpies(P) == DOMAIN P \ Spies(P)
Voters(V) == {v.voter_name : v \in V}
Voted(V) == {v.voted_name : v \in V}
LastResult(R) == R[Len(R)]

\* in this step exactly the players of W gain a point, and nobody else's score moves
ScoresMove(W) ==
    /\ DOMAIN players' = DOMAIN players
    /\ \A n \in DOMAIN players :
          players'[n].score = players[n].score + (IF n \in W THEN 1 ELSE 0)

\* the vote of p completes the quorum: its transaction commits a resolution
QuorumResolves(p) ==
    /\ procs[p].pc = "v_commit"
    /\ procs'[p].pc = "done"
    /\ Len(round_results') = Len(round_results) + 1

\* end_round of p runs its scoring statement
EndRoundScores(p) == procs[p].pc = "er_score" /\ procs'[p].pc = "er_insert"

\* C3: when the quorum-completing vote resolves a round and the eliminated
\* player is a spy, exactly the players of the room that are not spies and
\* voted this round for some spy gain one point; no other score moves.
C3_SpyCaughtScores ==
    [][\A p \in Procs :
          (QuorumResolves(p)
              /\ LastResult(round_results').eliminated_player \in Spies(players))
          => ScoresMove({n \in NonSpies(players) :
                           \E v \in VotesOf(votes', LastResult(round_results').round) :
                              v.voter_name = n /\ v.voted_name \in Spies(players)})]_vars

\* C4: when a round is resolved, by the quorum-completing vote or by
\* end-round, and the eliminated player is not a spy, exactly the spies that
\* nobody voted for this round gain one point; no other score moves.
C4_SpyEscapedScores ==
    [][\A p \in Procs :
          /\ (QuorumResolves(p)
                /\ LastResult(round_results').eliminated_player \notin Spies(players))
             => ScoresMove(Spies(players)
                             \ Voted(VotesOf(votes', LastResult(round_results').round)))
          /\ (EndRoundScores(p) /\ procs[p].eliminated_name \notin Spies(players))
             => ScoresMove(Spies(players) \ Voted(VotesOf(votes, CurrentRound)))]_vars

\* a round was resolved with a non-spy eliminated: the spy nobody voted for
\* has the point, the spy that drew a vote has none
C4_Witness ==
    /\ Len(round_results) = 1
    /\ round_results[1].was_mafia = "FALSE"
    /\ \E a, b \in Spies(players) :
          /\ players[a].score = 1 /\ a \notin Voted(votes)
          /\ players[b].score = 0 /\ b \in Voted(votes)

\* the transaction of p's vote commits
VoteCommits(p) == procs[p].pc = "v_commit" /\ procs'[p].pc = "done"

OneRowPerVoter(V) ==
    \A v, w \in V : (v.voter_name = w.voter_name /\ v.round = w.round) => v = w

\* C5: a committed vote leaves one row for its (voter, round): it replaces the
\* voter's earlier choice, leaves every other row alone, does not add a voter
\* when the voter had voted, and changes nothing when the same vote is sent again.
C5_OneVotePerVoter ==
    [][\A p \in Procs :
          VoteCommits(p) =>
             LET row == CHOOSE v \in procs[p].pvote : TRUE
                 mine(v) == v.voter_name = row.voter_name /\ v.round = row.round
             IN /\ row \in votes'
                /\ OneRowPerVoter(votes')
                /\ {v \in votes' : ~mine(v)} = {v \in votes : ~mine(v)}
                /\ (\E v \in votes : mine(v)) =>
                      Voters(VotesOf(votes', row.round)) = Voters(VotesOf(votes, row.round))
                /\ row \in votes => votes' = votes]_vars

\* a voter's second vote, for another name, is in its transaction over the first
C5_Witness ==
    \E p \in Procs :
       /\ procs[p].pc = "v_commit"
       /\ \E v \in votes, w \in procs[p].pvote :
             /\ v.voter_name = w.voter_name /\ v.round = w.round
             /\ v.voted_name # w.voted_name

\* C6: when start-round or next-round returns, mafia_count players of the room
\* are spies, every player holds the round's spy word if a spy and its other
\* word if not, and every player carries the new round number, not eliminated.
C6_RolesAssigned ==
    [][\A p \in Procs :
          (Completes(p, "start_round", 200) \/ Completes(p, "next_round", 200)) =>
             /\ Cardinality(Spies(players')) = procs[p].mafia_count
             /\ \E words \in WordPairs :
                   \A n \in DOMAIN players' :
                      players'[n].word = IF n \in Spies(players') THEN words[2] ELSE words[1]
             /\ \A n \in DOMAIN players' :
                   /\ players'[n].is_mafia \in {"TRUE", "FALSE"}
                   /\ players'[n].round = procs[p].current_round
                   /\ players'[n].eliminated = FALSE]_vars

\* C7: while a room is ongoing no step takes its phase from voting back to
\* discussion or changes a player's role or word.
C7_NoRestart ==
    [][\A r \in rooms :
          r.status = "ongoing" =>
             /\ \A r2 \in rooms' :
                   ~(r.current_phase = "voting" /\ r2.current_phase = "discussion")
             /\ \A n \in DOMAIN players \cap DOMAIN players' :
                   /\ players'[n].is_mafia = players[n].is_mafia
                   /\ players'[n].word = players[n].word]_vars

\* C8: a room that is in ended when a command is issued has a recorded
\* result, and when the host's next-round returns on a room with recorded
\* results no vote row is left, the room is in discussion, and every player
\* carries the round one greater than the maximum recorded round.
C8_NextRoundNumber ==
    /\ [](AllIdle => \A r \in rooms : r.status = "ended" => round_results # <<>>)
    /\ [][\A p \in Procs :
             (Completes(p, "next_round", 200) /\ round_results # <<>>) =>
                /\ votes' = {}
                /\ \A r \in rooms' : r.status = "ongoing" /\ r.current_phase = "discussion"
                /\ \A n \in DOMAIN players' : players'[n].round = MaxRound + 1]_vars

\* next-round has returned on a room whose round 1 was resolved
C8_Witness ==
    \E p \in Procs :
       /\ procs[p].pc = "done" /\ procs[p].op = "next_round" /\ procs[p].resp = 200
       /\ round_results # <<>> /\ MaxRound = 1
       /\ votes = {}
       /\ players # NoPlayers
       /\ \A n \in DOMAIN players : players[n].round = 2

Gone(r, P, V, R) == r = {} /\ DOMAIN P = {} /\ V = {} /\ R = <<>>

\* C9: when the host's end-game returns, no row of the room is left; none
\* appears until a room is created again; join-room and room-status on the
\* code answer 404 meanwhile.
C9_EndGameRemovesAll ==
    [][/\ \A p \in Procs :
             /\ Completes(p, "end_game", 200) => Gone(rooms', players', votes', round_results')
             /\ (Idle(p) /\ rooms = {} /\ procs'[p].op = "room_status") => procs'[p].resp = 404
             /\ (Idle(p) /\ rooms = {} /\ procs'[p].op = "join_room")
                   => procs'[p].resp \in {400, 404}
       /\ (Gone(rooms, players, votes, round_results) /\ rooms' = {})
             => Gone(rooms', players', votes', round_results')]_vars

HostGated == {"start_round", "start_voting", "next_round", "end_game"}

\* C10: a host-gated command on an existing room under a name that is not
\* host_name returns 403 at once and changes no row.
C10_NonHostForbidden ==
    [][\A p \in Procs :
          (Idle(p) /\ procs'[p].op \in HostGated /\ rooms # {}
              /\ procs'[p].name # HostName)
          => (procs'[p].pc = "done" /\ procs'[p].resp = 403 /\ db' = db)]_vars

\* a non-host was answered 403 on an existing room
C10_Witness ==
    \E p \in Procs :
       /\ procs[p].pc = "done" /\ procs[p].op \in HostGated /\ procs[p].resp = 403
       /\ rooms # {} /\ procs[p].name # HostName

Transitions == {"start_round", "start_voting", "vote", "end_round", "next_round", "end_game"}

\* p's handler returns or raises in this step
Returns(p) == procs[p].pc # "done" /\ procs'[p].pc = "done"

\* C11: a transition command that returns while no room of the code exists
\* returns 404, whatever name the caller gave.
C11_MissingRoomNotFound ==
    [][\A p \in Procs :
          (Returns(p) /\ rooms = {} /\ procs'[p].op \in Transitions)
          => procs'[p].resp = 404]_vars

\* C12: start-voting by the host returns 200 and sets current_phase to voting,
\* changing nothing else, when current_phase is discussion; in every other
\* phase it returns 400 and changes no row.
C12_StartVotingFromDiscussion ==
    [][\A p \in Procs : \A r \in rooms :
          (Returns(p) /\ procs'[p].op = "start_voting" /\ procs'[p].name = r.host_name)
          => IF r.current_phase = "discussion"
             THEN /\ procs'[p].resp = 200
                  /\ rooms' = {[r EXCEPT !.current_phase = "voting"]}
                  /\ UNCHANGED <<players, votes, round_results>>
             ELSE /\ procs'[p].resp = 400
                  /\ db' = db]_vars

\* the host's start-voting has returned 200 and the room is in voting
C12_Witness ==
    \E p \in Procs : \E r \in rooms :
       /\ procs[p].pc = "done" /\ procs[p].op = "start_voting" /\ procs[p].resp = 200
       /\ procs[p].name = r.host_name
       /\ r.current_phase = "voting"

\* C13: when a vote resolves the round, every player of the room has a vote
\* recorded for that round (votes under names that are not players of the
\* room do not stand in for a player's vote).
C13_QuorumOfPlayers ==
    [][\A p \in Procs :
          QuorumResolves(p) =>
             \A n \in DOMAIN players :
                n \in Voters(VotesOf(votes', LastResult(round_results').round))]_vars

\* C16: a step takes a room to ended, appends a round result or adds to a
\* score only from status ongoing with current_phase voting.
C16_EndedOnlyFromVoting ==
    [][\A r \in rooms :
          (\/ \E r2 \in rooms' : r.status # "ended" /\ r2.status = "ended"
           \/ Len(round_results') > Len(round_results)
           \/ \E n \in DOMAIN players \cap DOMAIN players' :
                 players'[n].score > players[n].score)
          => (r.status = "ongoing" /\ r.current_phase = "voting")]_vars

\* C17: when a vote commits and leaves every player of the room with a vote of
\* this round that names a player of the room, the round is resolved: the room
\* is ended and round_results has a row of the round.
C17_FullVotesResolve ==
    [][\A p \in Procs :
          VoteCommits(p) =>
             LET round == (CHOOSE v \in procs[p].pvote : TRUE).round
             IN (/\ rooms' # {}
                 /\ DOMAIN players' # {}
                 /\ \A n \in DOMAIN players' :
                       \E v \in VotesOf(votes', round) :
                          v.voter_name = n /\ v.voted_name \in DOMAIN players')
                => (/\ \A r \in rooms' : r.status = "ended"
                    /\ \E i \in 1..Len(round_results') :
                          round_results'[i].round = round)]_vars

\* C18: end_round's scoring statement awards what process_round_results awards
\* from the same players and votes for the same eliminated player.
C18_SameResolve ==
    [][\A p \in Procs :
          EndRoundScores(p) =>
             LET V == VotesOf(votes, procs[p].current_round)
             IN players' = AddPoint(players,
                              IF procs[p].eliminated_name \in Spies(players)
                              THEN SpyCaughtWinners(players, V)
                              ELSE SpyEscapedWinners(players, V))]_vars

\* C19: a create-room whose INSERT meets a room of the same code does not
\* fail: it returns 200 only (after generating another code).
C19_CreateRetries ==
    [][\A p \in Procs :
          (procs[p].pc = "cr_insert" /\ rooms # {} /\ Returns(p))
          => procs'[p].resp = 200]_vars

\* C20: a committed vote, and the round result its resolution writes, carry
\* the round number the role assignment stored on the players.
C20_VoteRoundIsPlayersRound ==
    [][\A p \in Procs :
          VoteCommits(p) =>
             \A n \in DOMAIN players :
                players[n].is_mafia # NULL =>
                   /\ (CHOOSE v \in procs[p].pvote : TRUE).round = players[n].round
                   /\ \A r \in procs[p].res : r.row.round = players[n].round]_vars

\* C14: a handler that is publishing an event leaves broadcast only to go on
\* as it would have without subscribers: it does not fail, and every
\* websocket registered at that moment has been sent the event.
C14_PublishNeverFails ==
    [][\A p \in Procs :
          (procs[p].pc = "bcast" /\ procs'[p].pc # "bcast")
          => (/\ procs'[p].pc = procs[p].next_pc
              /\ procs'[p].resp = procs[p].resp
              /\ procs'[p].res = procs[p].res
              /\ active_connections \subseteq procs[p].sent)]_vars

\* C15: when a command fails, the store is as it was when the command was issued.
C15_FailureLeavesNoTrace ==
    [][\A p \in Procs :
          (Returns(p) /\ procs'[p].resp >= 400) => db' = before']_vars

\* the event name each handler passes to broadcast
Event(op) ==
    CASE op = "create_room" -> "game_started"
      [] op \in {"start_round", "next_round"} -> "round_started"
      [] op = "start_voting" -> "voting_started"
      [] op = "end_game" -> "game_ended"
      [] op \in {"vote", "end_round"} -> "round_ended"
      [] OTHER -> ""

\* C21: while a handler has sent round_ended to a websocket, the resolution is
\* committed: no resolution waits in an open transaction, the room is ended
\* and round_results has a row.
C21_EventAfterCommit ==
    \A p \in Procs :
       (Event(procs[p].op) = "round_ended" /\ procs[p].got # {})
       => (/\ procs[p].res = {}
           /\ round_results # <<>>
           /\ \A r \in rooms : r.status = "ended")

====
